---- MODULE Spec2Model ----
(***************************************************************************)
(* ExternalCaller: main() parses a Call Request from argv and              *)
(* call_external_cdecl_function() opens the target process, allocates a    *)
(* block in it, assembles an i686 cdecl call stub, writes it, starts a     *)
(* remote thread on it, polls until the thread ends, reads its exit code   *)
(* and releases what it holds.  The target process (TestApplication) and   *)
(* the Win32 calls are modelled by what they answer to these calls.        *)
(***************************************************************************)
EXTENDS Integers, Sequences, FiniteSets, TLC

(* ------------------------------ bounds --------------------------------- *)

\* Small argument counts / token-list lengths are 0..MaxSmallArgc.
MaxSmallArgc == 3

\* WaitForSingleObject polls are recorded up to this many per invocation.
MaxPolls == 2

(* --------------------------- machine words ----------------------------- *)

\* A DWORD / unsigned __int32 / 32-bit pointer is kept as <<high, low>>, two
\* 16-bit halves; W16 is the radix.  All arithmetic on it is modulo 2^32.
W16 == 65536

\* unsigned __int8 store keeps the low 8 bits.
W8 == 256

\* A byte of the malloc'ed buffer that has not been written yet.
Uninit == -1

\* Instruction bytes written by the assembler.
OP_PUSH == 104
OP_CALL == 232
OP_ADD == 131
OP_ESP == 196
OP_RET == 195

\* The DWORD holding natural number n (n < 2^31).
DW(n) == << (n \div W16) % W16, n % W16 >>

\* NULL pointer / NULL handle.
NULL == DW(0)

\* The natural number held by DWORD x, for x < 2^31.
Nat32(x) == x[1] * W16 + x[2]

\* x + y, x - y in 32 bits.
Add32(x, y) ==
  LET lo == x[2] + y[2]
  IN  << (x[1] + y[1] + lo \div W16) % W16, lo % W16 >>

Neg32(x) == Add32(<< W16 - 1 - x[1], W16 - 1 - x[2] >>, DW(1))

Sub32(x, y) == Add32(x, Neg32(y))

\* x * k in 32 bits, for a small natural k.
Mul32(x, k) ==
  LET lo == x[2] * k
  IN  << (x[1] * k + lo \div W16) % W16, lo % W16 >>

\* Unsigned comparison x < y.
Lt32(x, y) == x[1] < y[1] \/ (x[1] = y[1] /\ x[2] < y[2])

U8(x) == x % W8

\* Low byte of DWORD x (conversion to unsigned __int8).
LowByte(x) == x[2] % W8

\* Little-endian bytes of a 32-bit store *(unsigned __int32*)p = v.
LE32(v) == << v[2] % W8, v[2] \div W8, v[1] % W8, v[1] \div W8 >>

\* 32-bit little-endian load from byte sequence b at offset off (0-based).
RD32(b, off) ==
  << b[off + 3] + W8 * b[off + 4], b[off + 1] + W8 * b[off + 2] >>

\* Byte offset off (a DWORD) lies inside buffer buf.
InBuffer(buf, off) == off[1] = 0 /\ off[2] + 1 \in DOMAIN buf

\* caller_bytes[off] = v   (off a DWORD; a store outside the buffer is not kept)
Write8(buf, off, v) ==
  IF InBuffer(buf, off) THEN [buf EXCEPT ![off[2] + 1] = U8(v)] ELSE buf

\* *(unsigned __int32*)(caller_bytes + off) = v
Write32(buf, off, v) ==
  LET le == LE32(v)
  IN  Write8(Write8(Write8(Write8(buf, off, le[1]), Add32(off, DW(1)), le[2]),
                    Add32(off, DW(2)), le[3]), Add32(off, DW(3)), le[4])

(* --------------------------- token parsing ----------------------------- *)

DecDigits == <<"0", "1", "2", "3", "4", "5", "6", "7", "8", "9">>

HexDigits == DecDigits \o <<"A", "B", "C", "D", "E", "F">>

\* Value of character c in digit table tab, or -1 if it is no digit of it.
DigitVal(tab, c) ==
  IF \E k \in DOMAIN tab : tab[k] = c
    THEN (CHOOSE k \in DOMAIN tab : tab[k] = c) - 1
    ELSE -1

\* Digits of tok from position k on, accumulated in the given base,
\* stopping at the first character that is no digit.
RECURSIVE ParseDigits(_, _, _, _, _)
ParseDigits(tab, base, tok, k, acc) ==
  IF k > Len(tok) \/ DigitVal(tab, tok[k]) < 0
    THEN acc
    ELSE ParseDigits(tab, base, tok, k + 1,
                     Add32(Mul32(acc, base), DW(DigitVal(tab, tok[k]))))

\* atoi(tok) stored into a DWORD: optional sign, decimal digits.
Atoi(tok) ==
  IF Len(tok) > 0 /\ tok[1] = "-"
    THEN Neg32(ParseDigits(DecDigits, 10, tok, 2, DW(0)))
    ELSE ParseDigits(DecDigits, 10, tok, 1, DW(0))

\* strtoul(tok, NULL, 16) stored into a DWORD.
Strtoul16(tok) == ParseDigits(HexDigits, 16, tok, 1, DW(0))

\* Decimal token of a natural number (how a user types it).
RECURSIVE DecToken(_)
DecToken(n) ==
  IF n < 10 THEN << DecDigits[n + 1] >>
  ELSE DecToken(n \div 10) \o << DecDigits[(n % 10) + 1] >>

(* --------------------------- Stub Assembler ---------------------------- *)

CallerSizeNoRet(argc) == Add32(Mul32(argc, 1 + 4), DW(1 + 4 + 3))

\* DWORD caller_size = (1 + 4) * argc + 1 + 4 + 3 + 1;
CallerSize(argc) == Add32(Mul32(argc, 1 + 4), DW(1 + 4 + 3 + 1))

PushArgIndexForward(argc, i) == i

\* Index (0-based, as in C) of the argument pushed by loop iteration i.
PushArgIndex(argc, i) == Sub32(Sub32(argc, i), DW(1))

CallDisplacementFromCallStart(function_address, caller_address, argc) ==
  Sub32(function_address, Add32(caller_address, Mul32(argc, 5)))

\* function_address - ((unsigned __int32)caller_address + argc * 5) - 5
CallDisplacement(function_address, caller_address, argc) ==
  Sub32(Sub32(function_address, Add32(caller_address, Mul32(argc, 5))), DW(5))

\* caller_bytes[argc * 5 + 7] = 4 * argc;  stored into one byte
StackAdjust(argc) == LowByte(Mul32(argc, 4))

\* for (int i = 0; i < argc; i++) { push opcode; push operand }
RECURSIVE PushLoop(_, _, _, _)
PushLoop(buf, args, argc, i) ==
  IF Lt32(i, argc)
    THEN LET nb == Write32(Write8(buf, Mul32(i, 5), OP_PUSH),
                           Add32(Mul32(i, 5), DW(1)),
                           args[Nat32(PushArgIndex(argc, i)) + 1])
         IN  IF DOMAIN nb = DOMAIN buf   \* a store never resizes the buffer
               THEN PushLoop(nb, args, argc, Add32(i, DW(1)))
               ELSE buf
    ELSE buf

\* The buffer after lines 101-121 of call_external_cdecl_function.
AssembleStub(buf, args, argc, function_address, caller_address) ==
  LET at == Mul32(argc, 5)
      b1 == PushLoop(buf, args, argc, DW(0))
      b2 == Write8(b1, at, OP_CALL)
      b3 == Write32(b2, Add32(at, DW(1)),
                    CallDisplacement(function_address, caller_address, argc))
      b4 == Write8(b3, Add32(at, DW(5)), OP_ADD)
      b5 == Write8(b4, Add32(at, DW(6)), OP_ESP)
      b6 == Write8(b5, Add32(at, DW(7)), StackAdjust(argc))
  IN  Write8(b6, Add32(at, DW(8)), OP_RET)

(* ---------------------- the target process (i686) ---------------------- *)

\* Address of __cdecl_sum in TestApplication, as the user types it.
SumAddressToken == <<"4", "0", "1", "0", "0", "0">>

SumAddress == Strtoul16(SumAddressToken)

\* An address of the target that is not the entry of __cdecl_sum.
OtherAddressToken == <<"F", "F", "F", "F", "F", "F", "F", "0">>

\* int __cdecl_sum(int a, int b) { ...; return a + b; }  (eax, 32-bit add)
CdeclSum(a, b) == Add32(a, b)

\* Values found in stack slots or registers the program never set.
Garbage == {DW(0), DW(57005)}

\* Exit codes of a thread ended by a fault in the target (0xC0000005).
CrashCodes == {<<49152, 5>>}

\* How a thread that faults can end.  Fetching instructions from memory that
\* holds no stub, or calling an address that holds no function, is an access
\* violation; a ret with esp off by the wrong adjustment, after the callee
\* has returned, jumps to whatever the stack slot holds.
FaultExitCodes(called) == IF called THEN CrashCodes \cup Garbage ELSE CrashCodes

\* push imm32 instructions decoded from mem starting at offset off.
RECURSIVE DecodePushes(_, _, _)
DecodePushes(mem, off, stack) ==
  IF off + 5 <= Len(mem) /\ mem[off + 1] = OP_PUSH
    THEN DecodePushes(mem, off + 5, Append(stack, RD32(mem, off + 1)))
    ELSE [off |-> off, stack |-> stack]

\* imm8 operand of 83 C4 ib is sign-extended by the processor.
SignExt8(b) == IF b >= 128 THEN b - 256 ELSE b

\* What a thread started at address base does when the block there holds mem:
\* pushes, near call, add esp, ret.  g1, g2 stand for the stack slots above
\* the pushed arguments; x is the exit code when the thread ends by a fault.
RunStub(mem, base, g1, g2, x) ==
  LET d   == DecodePushes(mem, 0, <<>>)
      off == d.off
      n   == Len(d.stack)
      wellformed ==
        /\ off + 9 <= Len(mem)
        /\ mem[off + 1] = OP_CALL
        /\ mem[off + 6] = OP_ADD
        /\ mem[off + 7] = OP_ESP
        /\ mem[off + 9] = OP_RET
      target == IF wellformed
                  THEN Add32(Add32(base, DW(off + 5)), RD32(mem, off + 1))
                  ELSE NULL
      a == IF n >= 1 THEN d.stack[n] ELSE g1
      b == IF n >= 2 THEN d.stack[n - 1] ELSE g2
      called == wellformed /\ target = SumAddress
      balanced == wellformed /\ SignExt8(mem[off + 8]) = 4 * n
  IN  [ called |-> called, a |-> a, b |-> b,
        faulted |-> ~(called /\ balanced),
        exit |-> IF called /\ balanced THEN CdeclSum(a, b) ELSE x ]

(* ------------------------------ inputs --------------------------------- *)

\* Argument counts beyond the small ones (signed imm8 limit, 8-bit wrap).
LargeArgcs == {32, 64}

\* Process identifiers: the running TestApplication, and one naming nothing.
RunningPids == {DW(1234)}

PidTokens == {DecToken(1234), DecToken(4321)}

AddrTokens == {SumAddressToken, OtherAddressToken}

\* The n trailing ARGUMENTS tokens of a command line.
ArgTokens(n, pat) ==
  [i \in 1..n |->
     CASE pat = "ones"  -> <<"1">>
       [] pat = "count" -> DecToken(i)
       [] pat = "neg"   -> IF i % 2 = 1 THEN <<"-">> \o DecToken(i) ELSE DecToken(i)]

ArgLists ==
  {ArgTokens(n, pat) : n \in 0..MaxSmallArgc, pat \in {"ones", "count", "neg"}}
  \cup {ArgTokens(n, "count") : n \in LargeArgcs}

\* ARGUMENTS_NUMBER tokens, among them a negative one.
NumTokens ==
  {DecToken(n) : n \in (0..MaxSmallArgc) \cup LargeArgcs} \cup {<<"-", "1">>}

ProgToken == <<"E">>

\* Command lines: complete ones and ones with fewer than 3 positional arguments.
Argvs ==
  {<<ProgToken, p, a, n>> \o l :
      p \in PidTokens, a \in AddrTokens, n \in NumTokens, l \in ArgLists}
  \cup {<<ProgToken>>, <<ProgToken, DecToken(1234)>>,
        <<ProgToken, DecToken(1234), SumAddressToken>>}

\* Addresses VirtualAllocEx can hand out in the target (below / above the code).
AllocBases == {<<2, 0>>, <<127, 0>>}

ProcessHandles == {DW(256)}

ThreadHandles == {DW(260)}

HeapPointers == {DW(4096)}

(* ------------------------------- state --------------------------------- *)

VARIABLES
  pc,                \* position in main / call_external_cdecl_function
  argv,              \* main's argv (argc = Len(argv))
  process_id, function_address, arguments_number,
  arguments,         \* main's parsed argument array
  oob_read,          \* main read argv[k] with k >= argc
  caller_size, process_handle, caller_address,
  caller_ptr,        \* caller_bytes, the pointer malloc returned
  caller_bytes,      \* the bytes behind caller_bytes
  thread_handle, result,
  ret,               \* value returned to main
  stdout, exit_status,
  fault,             \* why ExternalCaller crashed, if it did
  log,               \* calls made so far: [op, ok]
  polls,             \* WaitForSingleObject calls that returned non-zero
  open_handles,      \* handles ExternalCaller holds open
  heap_live,         \* caller_bytes is allocated and not freed
  remote,            \* target memory: AllocBases -> bytes of the block (<<>> = free)
  thread,            \* the remote thread
  target_alive,      \* TestApplication is running
  sum_calls,         \* (a, b) printed by __cdecl_sum, in order
  past               \* the invocations of ExternalCaller that ended before this one

vars == << pc, argv, process_id, function_address, arguments_number, arguments,
           oob_read, caller_size, process_handle, caller_address, caller_ptr,
           caller_bytes, thread_handle, result, ret, stdout, exit_status, fault,
           log, polls, open_handles, heap_live, remote, thread, target_alive,
           sum_calls, past >>

mainVars == << argv, process_id, function_address, arguments_number, arguments,
               oob_read >>

localVars == << caller_size, process_handle, caller_address, caller_ptr,
                caller_bytes, thread_handle, result >>

outVars == << ret, stdout, exit_status >>

envVars == << open_handles, heap_live, remote, thread, target_alive, sum_calls >>

NoThread == [state |-> "none", start |-> NULL, exit |-> DW(0)]

Logged(op, ok) == Append(log, [op |-> op, ok |-> ok])

Init ==
  /\ pc = "main"
  /\ argv \in Argvs
  /\ process_id = DW(0) /\ function_address = DW(0)
  /\ arguments_number = DW(0)
  /\ arguments = <<>>
  /\ oob_read = FALSE
  /\ caller_size = DW(0) /\ process_handle = NULL /\ caller_address = NULL
  /\ caller_ptr = NULL /\ caller_bytes = <<>>
  /\ thread_handle = NULL /\ result = DW(0)
  /\ ret = DW(0) /\ stdout = <<>> /\ exit_status = DW(0)
  /\ fault = "none"
  /\ log = <<>> /\ polls = 0
  /\ open_handles = {} /\ heap_live = FALSE
  /\ remote = [b \in AllocBases |-> <<>>]
  /\ thread = NoThread
  /\ target_alive = TRUE
  /\ sum_calls = << <<DW(1), DW(1)>> >>
  /\ past = <<>>

(* -------------------------------- main ---------------------------------- *)

MainUsageFallsThrough ==
  /\ pc = "main"
  /\ Len(argv) < 4
  /\ stdout' = Append(stdout, [line |-> "usage", value |-> DW(0)])
  /\ pc' = "L87"
  /\ UNCHANGED << past, mainVars, localVars, ret, exit_status, fault, log,
                  polls, envVars >>

\* if (argc < 4) { print usage; return -1; }
MainUsage ==
  /\ pc = "main"
  /\ Len(argv) < 4
  /\ stdout' = Append(stdout, [line |-> "usage", value |-> DW(0)])
  /\ exit_status' = Neg32(DW(1))
  /\ pc' = "exited"
  /\ UNCHANGED << past, mainVars, localVars, ret, fault, log, polls, envVars >>

\* malloc of a size the 32-bit address space cannot hold always fails.
MallocFits(size) == size[1] < 32768

\* main read argv[4 + i] for an i with 4 + i >= argc.
ArgvOverrun(an, tokens, got) ==
  IF got THEN Lt32(DW(tokens), an) ELSE an # DW(0) /\ tokens = 0

\* Parse arguments (lines 177-183).  mem_ok: malloc succeeds; survive, g: the
\* reads past the end of argv do not fault and atoi yields g for them.
MainParse ==
  /\ pc = "main"
  /\ Len(argv) >= 4
  /\ \E mem_ok \in BOOLEAN, survive \in BOOLEAN, g \in Garbage :
       LET an     == Atoi(argv[4])
           tokens == Len(argv) - 4
           got    == mem_ok /\ MallocFits(Mul32(an, 4))
           over   == ArgvOverrun(an, tokens, got)
           nullwr == an # DW(0) /\ ~got
           crash  == nullwr \/ (over /\ ~survive)
       IN  /\ process_id' = Atoi(argv[2])
           /\ function_address' = Strtoul16(argv[3])
           /\ arguments_number' = an
           /\ oob_read' = over
           /\ IF crash
                THEN /\ pc' = "crashed"
                     /\ fault' = IF over /\ ~survive THEN "argv_overrun"
                                 ELSE "null_write"
                     /\ arguments' = <<>>
                ELSE /\ pc' = "L87"
                     /\ fault' = fault
                     /\ arguments' =
                          [i \in 1..Nat32(an) |->
                             IF i <= tokens THEN Atoi(argv[4 + i]) ELSE g]
  /\ UNCHANGED << past, argv, localVars, outVars, log, polls, envVars >>

\* printf("Result: 0x%x\n", result); free(arguments); return result;
MainPrint ==
  /\ pc = "L189"
  /\ stdout' = Append(stdout, [line |-> "Result", value |-> ret])
  /\ exit_status' = ret
  /\ pc' = "exited"
  /\ UNCHANGED << past, mainVars, localVars, ret, fault, log, polls, envVars >>

(* ------------------- call_external_cdecl_function ---------------------- *)

ComputeCallerSize ==
  /\ pc = "L87"
  /\ caller_size' = CallerSize(arguments_number)
  /\ pc' = "L94"
  /\ UNCHANGED << past, mainVars, process_handle, caller_address, caller_ptr,
                  caller_bytes, thread_handle, result, outVars, fault, log,
                  polls, envVars >>

OpenProcessRetry ==
  /\ pc = "L94"
  /\ \E ok \in BOOLEAN, h \in ProcessHandles :
       LET success == ok /\ process_id \in RunningPids /\ target_alive
           again   == ~success /\ Len(log) < 2
       IN  /\ process_handle' = IF success THEN h ELSE NULL
           /\ open_handles' = IF success THEN open_handles \cup {h}
                              ELSE open_handles
           /\ log' = Logged("OpenProcess", success)
           /\ pc' = IF again THEN "L94" ELSE "L95"
  /\ UNCHANGED << past, mainVars, caller_size, caller_address, caller_ptr,
                  caller_bytes, thread_handle, result, outVars, fault, polls,
                  heap_live, remote, thread, target_alive, sum_calls >>

\* HANDLE process_handle = OpenProcess(PROCESS_ALL_ACCESS, FALSE, process_id);
OpenProcess ==
  /\ pc = "L94"
  /\ \E ok \in BOOLEAN, h \in ProcessHandles :
       LET success == ok /\ process_id \in RunningPids /\ target_alive
       IN  /\ process_handle' = IF success THEN h ELSE NULL
           /\ open_handles' = IF success THEN open_handles \cup {h}
                              ELSE open_handles
           /\ log' = Logged("OpenProcess", success)
  /\ pc' = "L95"
  /\ UNCHANGED << past, mainVars, caller_size, caller_address, caller_ptr,
                  caller_bytes, thread_handle, result, outVars, fault, polls,
                  heap_live, remote, thread, target_alive, sum_calls >>

VirtualAllocExPooled ==
  /\ pc = "L95"
  /\ \E ok \in BOOLEAN, b \in AllocBases :
       LET success == ok /\ process_handle \in open_handles /\ target_alive
       IN  /\ caller_address' = IF success THEN b ELSE NULL
           /\ remote' = IF success /\ remote[b] = <<>>
                          THEN [remote EXCEPT ![b] = [i \in 1..Nat32(caller_size) |-> 0]]
                          ELSE remote
           /\ log' = Logged("VirtualAllocEx", success)
  /\ pc' = "L99"
  /\ UNCHANGED << past, mainVars, caller_size, process_handle, caller_ptr,
                  caller_bytes, thread_handle, result, outVars, fault, polls,
                  open_handles, heap_live, thread, target_alive, sum_calls >>

\* void* caller_address = VirtualAllocEx(process_handle, NULL, caller_size, ...);
VirtualAllocEx ==
  /\ pc = "L95"
  /\ \E ok \in BOOLEAN, b \in AllocBases :
       LET success == /\ ok
                      /\ process_handle \in open_handles
                      /\ target_alive
                      /\ remote[b] = <<>>
       IN  /\ caller_address' = IF success THEN b ELSE NULL
           /\ remote' = IF success
                          THEN [remote EXCEPT ![b] = [i \in 1..Nat32(caller_size) |-> 0]]
                          ELSE remote
           /\ log' = Logged("VirtualAllocEx", success)
  /\ pc' = "L99"
  /\ UNCHANGED << past, mainVars, caller_size, process_handle, caller_ptr,
                  caller_bytes, thread_handle, result, outVars, fault, polls,
                  open_handles, heap_live, thread, target_alive, sum_calls >>

\* unsigned __int8* caller_bytes = (unsigned __int8*)malloc(caller_size);
malloc ==
  /\ pc = "L99"
  /\ \E ok \in BOOLEAN, p \in HeapPointers :
       /\ caller_ptr' = IF ok THEN p ELSE NULL
       /\ caller_bytes' = IF ok THEN [i \in 1..Nat32(caller_size) |-> Uninit] ELSE <<>>
       /\ heap_live' = ok
       /\ log' = Logged("malloc", ok)
  /\ pc' = "L101"
  /\ UNCHANGED << past, mainVars, caller_size, process_handle, caller_address,
                  thread_handle, result, outVars, fault, polls, open_handles,
                  remote, thread, target_alive, sum_calls >>

\* Lines 101-121 on a buffer malloc returned.
Assemble ==
  /\ pc = "L101"
  /\ caller_ptr # NULL
  /\ caller_bytes' = AssembleStub(caller_bytes, arguments, arguments_number,
                                  function_address, caller_address)
  /\ pc' = "L124"
  /\ UNCHANGED << past, mainVars, caller_size, process_handle, caller_address,
                  caller_ptr, thread_handle, result, outVars, fault, log, polls,
                  envVars >>

\* Lines 101-121 when malloc returned NULL: the first store is to address
\* 0..5*argc+8, which is not mapped.
AssembleNull ==
  /\ pc = "L101"
  /\ caller_ptr = NULL
  /\ fault' = "null_write"
  /\ pc' = "crashed"
  /\ UNCHANGED << past, mainVars, localVars, outVars, log, polls, envVars >>

\* The block at address addr with the first size bytes replaced by buf's.
Copied(block, buf, size) ==
  [i \in 1..Len(block) |-> IF i <= size THEN buf[i] ELSE block[i]]

\* WriteProcessMemory(process_handle, caller_address, caller_bytes, caller_size, NULL);
WriteProcessMemory ==
  /\ pc = "L124"
  /\ \E ok \in BOOLEAN :
       LET success == /\ ok
                      /\ process_handle \in open_handles
                      /\ target_alive
                      /\ caller_address \in AllocBases
                      /\ Nat32(caller_size) <= Len(remote[caller_address])
       IN  /\ remote' = IF success
                          THEN [remote EXCEPT ![caller_address] =
                                  Copied(@, caller_bytes, Nat32(caller_size))]
                          ELSE remote
           /\ log' = Logged("WriteProcessMemory", success)
  /\ pc' = "L128"
  /\ UNCHANGED << past, mainVars, localVars, outVars, fault, polls, open_handles,
                  heap_live, thread, target_alive, sum_calls >>

\* Exit code GetExitCodeThread reports for a thread that has not ended (259).
StillActive == DW(259)

\* HANDLE thread_handle = CreateRemoteThread(process_handle, NULL, 0, caller_address, ...);
CreateRemoteThread ==
  /\ pc = "L128"
  /\ \E ok \in BOOLEAN, h \in ThreadHandles :
       LET success == ok /\ process_handle \in open_handles /\ target_alive
       IN  /\ thread_handle' = IF success THEN h ELSE NULL
           /\ open_handles' = IF success THEN open_handles \cup {h}
                              ELSE open_handles
           /\ thread' = IF success
                          THEN [state |-> "running", start |-> caller_address,
                                exit |-> StillActive]
                          ELSE thread
           /\ log' = Logged("CreateRemoteThread", success)
  /\ pc' = "L132"
  /\ UNCHANGED << past, mainVars, caller_size, process_handle, caller_address,
                  caller_ptr, caller_bytes, result, outVars, fault, polls,
                  heap_live, remote, target_alive, sum_calls >>

SignalledWhileRunning == thread_handle \in open_handles

\* WaitForSingleObject(thread_handle, 0) == 0: the handle is signalled.
Signalled == thread_handle \in open_handles /\ thread.state = "terminated"

\* while (WaitForSingleObject(thread_handle, 0) != 0) {}   -- loop exit
WaitForSingleObject ==
  /\ pc = "L132"
  /\ Signalled
  /\ log' = Logged("WaitForSingleObject", TRUE)
  /\ pc' = "L136"
  /\ UNCHANGED << past, mainVars, localVars, outVars, fault, polls, envVars >>

\* while (WaitForSingleObject(thread_handle, 0) != 0) {}   -- another round:
\* WAIT_TIMEOUT while the thread runs, WAIT_FAILED for a NULL handle.
WaitAgain ==
  /\ pc = "L132"
  /\ ~Signalled
  /\ polls < MaxPolls
  /\ polls' = polls + 1
  /\ log' = Logged("WaitForSingleObject", FALSE)
  /\ pc' = "L132"
  /\ UNCHANGED << past, mainVars, localVars, outVars, fault, envVars >>

\* DWORD result = 0; GetExitCodeThread(thread_handle, &result);
GetExitCodeThread ==
  /\ pc = "L136"
  /\ LET success == thread_handle \in open_handles
     IN  /\ result' = IF success THEN thread.exit ELSE DW(0)
         /\ log' = Logged("GetExitCodeThread", success)
  /\ pc' = "L138"
  /\ UNCHANGED << past, mainVars, caller_size, process_handle, caller_address,
                  caller_ptr, caller_bytes, thread_handle, outVars, fault,
                  polls, envVars >>

\* CloseHandle(thread_handle);
CloseHandleThread ==
  /\ pc = "L138"
  /\ log' = Logged("CloseHandle(thread)", thread_handle \in open_handles)
  /\ open_handles' = open_handles \ {thread_handle}
  /\ pc' = "L139"
  /\ UNCHANGED << past, mainVars, localVars, outVars, fault, polls, heap_live,
                  remote, thread, target_alive, sum_calls >>

\* free(caller_bytes);
free ==
  /\ pc = "L139"
  /\ log' = Logged("free", heap_live)
  /\ heap_live' = FALSE
  /\ pc' = "L140"
  /\ UNCHANGED << past, mainVars, localVars, outVars, fault, polls, open_handles,
                  remote, thread, target_alive, sum_calls >>

\* VirtualFreeEx succeeds for MEM_DECOMMIT, and for MEM_RELEASE with size 0, of
\* a block allocated in the process; any other dwFreeType is an invalid
\* parameter and frees nothing.
VirtualFreeExReleases(handle, address, size, free_type) ==
  /\ handle \in open_handles
  /\ target_alive
  /\ address \in AllocBases
  /\ remote[address] # <<>>
  /\ free_type = "MEM_RELEASE"
  /\ size = DW(0)

\* VirtualFreeEx(process_handle, caller_address, caller_size, MEM_FREE);
VirtualFreeEx ==
  /\ pc = "L140"
  /\ LET success == VirtualFreeExReleases(process_handle, caller_address,
                                          caller_size, "MEM_FREE")
     IN  /\ remote' = IF success THEN [remote EXCEPT ![caller_address] = <<>>]
                      ELSE remote
         /\ log' = Logged("VirtualFreeEx", success)
  /\ pc' = "L141"
  /\ UNCHANGED << past, mainVars, localVars, outVars, fault, polls, open_handles,
                  heap_live, thread, target_alive, sum_calls >>

\* CloseHandle(process_handle);
CloseHandleProcess ==
  /\ pc = "L141"
  /\ log' = Logged("CloseHandle(process)", process_handle \in open_handles)
  /\ open_handles' = open_handles \ {process_handle}
  /\ pc' = "L142"
  /\ UNCHANGED << past, mainVars, localVars, outVars, fault, polls, heap_live,
                  remote, thread, target_alive, sum_calls >>

\* return result;
Return ==
  /\ pc = "L142"
  /\ ret' = result
  /\ pc' = "L189"
  /\ UNCHANGED << past, mainVars, localVars, stdout, exit_status, fault, log, polls,
                  envVars >>

(* --------------------------- the remote thread ------------------------- *)

\* The thread CreateRemoteThread started runs what its start address holds and
\* ends: by returning from the stub, or by a fault that takes the target down.
ThreadFinish ==
  /\ thread.state = "running"
  /\ \E g1 \in Garbage, g2 \in Garbage, x \in CrashCodes \cup Garbage :
       LET mem == IF thread.start \in AllocBases THEN remote[thread.start]
                  ELSE <<>>
           r   == RunStub(mem, thread.start, g1, g2, x)
           dies == r.faulted /\ x \in CrashCodes
       IN  /\ x \in FaultExitCodes(r.called)
           /\ thread' = [thread EXCEPT !.state = "terminated", !.exit = r.exit]
           /\ sum_calls' = IF r.called THEN Append(sum_calls, <<r.a, r.b>>)
                           ELSE sum_calls
           /\ target_alive' = (target_alive /\ ~dies)
           /\ remote' = IF dies THEN [b \in AllocBases |-> <<>>] ELSE remote
  /\ UNCHANGED << past, pc, mainVars, localVars, outVars, fault, log, polls,
                  open_handles, heap_live >>

(* ------------------------- a second invocation ------------------------ *)

\* What is kept of an invocation that has ended.
Ended ==
  [ argv |-> argv, arguments |-> arguments, log |-> log, ret |-> ret,
    stdout |-> stdout, pc |-> pc, caller_address |-> caller_address,
    thread_start |-> thread.start ]

\* Command lines of the runs of ExternalCaller started one after the other
\* against the same TestApplication: the sum of two arguments, and a
\* malformed invocation.
TwiceArgvs ==
  {<<ProgToken, DecToken(1234), SumAddressToken, DecToken(2)>> \o ArgTokens(2, pat) :
      pat \in {"ones", "count", "neg"}}
  \cup {<<ProgToken, DecToken(1234)>>}

\* ExternalCaller has ended (returned from main or crashed) and is started
\* again: a new process with its own locals, heap and handles, since the
\* system closed those of the process that ended; the target is as it was left.
Rerun ==
  /\ pc \in {"exited", "crashed"}
  /\ past = <<>>
  /\ past' = Append(past, Ended)
  /\ argv' \in TwiceArgvs
  /\ pc' = "main"
  /\ process_id' = DW(0) /\ function_address' = DW(0)
  /\ arguments_number' = DW(0)
  /\ arguments' = <<>>
  /\ oob_read' = FALSE
  /\ caller_size' = DW(0) /\ process_handle' = NULL /\ caller_address' = NULL
  /\ caller_ptr' = NULL /\ caller_bytes' = <<>>
  /\ thread_handle' = NULL /\ result' = DW(0)
  /\ ret' = DW(0) /\ stdout' = <<>> /\ exit_status' = DW(0)
  /\ fault' = "none"
  /\ log' = <<>> /\ polls' = 0
  /\ open_handles' = {} /\ heap_live' = FALSE
  /\ UNCHANGED << remote, thread, target_alive, sum_calls >>

Next ==
  \/ MainUsage
  \/ MainParse
  \/ ComputeCallerSize
  \/ OpenProcess
  \/ VirtualAllocEx
  \/ malloc
  \/ Assemble
  \/ AssembleNull
  \/ WriteProcessMemory
  \/ CreateRemoteThread
  \/ WaitForSingleObject
  \/ WaitAgain
  \/ GetExitCodeThread
  \/ CloseHandleThread
  \/ free
  \/ VirtualFreeEx
  \/ CloseHandleProcess
  \/ Return
  \/ MainPrint
  \/ ThreadFinish

Spec == Init /\ [][Next]_vars

\* Two invocations, one after the other, against the same target.
InitTwice == Init /\ argv \in TwiceArgvs

NextTwice == Next \/ Rerun

SpecTwice == InitTwice /\ [][NextTwice]_vars

(* =============================== claims ================================ *)

\* The argument count of the invocation, as a natural number.
N == Nat32(arguments_number)

Calls(op) == {i \in DOMAIN log : log[i].op = op}

Succeeded(op) == \E i \in Calls(op) : log[i].ok

Failed(op) == \E i \in Calls(op) : ~log[i].ok

\* Positions of call_external_cdecl_function after the stub was assembled.
AfterAssembly ==
  {"L124", "L128", "L132", "L136", "L138", "L139", "L140", "L141", "L142",
   "L189", "exited"}

\* The in-process buffer holds an assembled stub.
Assembled == pc \in AfterAssembly /\ caller_ptr # NULL

\* call_external_cdecl_function has returned to main.
Returned == pc \in {"L189", "exited"} /\ log # <<>>

AcquireSteps ==
  {"OpenProcess", "VirtualAllocEx", "WriteProcessMemory", "CreateRemoteThread"}

LaterForeignSteps ==
  {"VirtualAllocEx", "WriteProcessMemory", "CreateRemoteThread",
   "WaitForSingleObject"}

AnyStepFailed == \E op \in AcquireSteps : Failed(op)

AllStepsSucceeded ==
  /\ \A op \in AcquireSteps : Succeeded(op)
  /\ Succeeded("malloc")

\* ARGUMENTS_NUMBER differs from the number of ARGUMENTS tokens supplied.
CountMismatch ==
  Len(argv) >= 4 /\ Atoi(argv[4]) # DW(Len(argv) - 4)

\* The Call Request is well formed: as many arguments as announced.
ValidRequest == ~CountMismatch

(* C1: in an invocation on a valid request, once open-process,
   remote-allocate, remote-write or create-thread has failed, no later
   foreign-process step (allocate, write, thread creation, wait) is
   performed. *)
C1_NoForeignStepAfterFailure ==
  ValidRequest =>
    \A i \in DOMAIN log : \A j \in DOMAIN log :
      (i < j /\ log[i].op \in AcquireSteps /\ ~log[i].ok)
        => log[j].op \notin LaterForeignSteps

(* C2: when the process identifier of a valid request cannot be opened,
   VirtualAllocEx is never called and no foreign resource is acquired. *)
C2_UnopenedProcessNeverAllocates ==
  (ValidRequest /\ Failed("OpenProcess")) =>
    /\ Calls("VirtualAllocEx") = {}
    /\ \A b \in AllocBases : remote[b] = <<>>

ReleaseOf ==
  [ OpenProcess |-> "CloseHandle(process)", VirtualAllocEx |-> "VirtualFreeEx",
    malloc |-> "free", CreateRemoteThread |-> "CloseHandle(thread)" ]

(* C3: at the terminal state of an invocation on a valid request the releases performed are exactly the releases
   of what was acquired: as many releases as successful acquisitions, a
   release issued only for a resource whose acquisition succeeded, each at
   most once and with effect, and nothing acquired still held. *)
C3_ReleasesMatchAcquires ==
  (ValidRequest /\ Returned) =>
    /\ \A a \in DOMAIN ReleaseOf :
         /\ Cardinality(Calls(ReleaseOf[a])) = (IF Succeeded(a) THEN 1 ELSE 0)
         /\ \A i \in Calls(ReleaseOf[a]) : log[i].ok
    /\ open_handles = {}
    /\ ~heap_live
    /\ \A b \in AllocBases : remote[b] = <<>>

\* Every 32-bit value is a Call Result some successful call can return.
IsCallResult(v) == v \in (0..(W16 - 1)) \X (0..(W16 - 1))

(* C4: when one of the steps of an invocation on a valid request failed, what the caller receives is not a value
   indistinguishable from the Call Result of a successful call. *)
C4_FailureIsDistinguishable ==
  (ValidRequest /\ Returned /\ AnyStepFailed) => ~IsCallResult(ret)

(* C5: for a valid request with N arguments, the immediate operand of
   add esp, at stub offset 5N+7, equals 4*N. *)
C5_StackAdjustIs4N ==
  (ValidRequest /\ Assembled) => caller_bytes[5 * N + 7 + 1] = 4 * N

(* C6: the byte at stub offset 5N is the call opcode and the 32-bit field
   after it is function_address - (load_address + 5N) - 5 modulo 2^32, so
   that the address after the call instruction plus the field is the
   function address. *)
C6_CallDisplacement ==
  Assembled =>
    /\ caller_bytes[5 * N + 1] = OP_CALL
    /\ RD32(caller_bytes, 5 * N + 1) =
         Sub32(Sub32(function_address, Add32(caller_address, DW(5 * N))), DW(5))
    /\ Add32(Add32(caller_address, DW(5 * N + 5)), RD32(caller_bytes, 5 * N + 1))
         = function_address

C6_Witness ==
  /\ pc = "L124" /\ caller_ptr # NULL
  /\ N = 2
  /\ function_address = SumAddress
  /\ Lt32(function_address, caller_address)

(* C7: for each i in 0..N-1 the byte at offset 5i is the push opcode and the
   32-bit value after it is args[N-1-i], bit for bit. *)
C7_PushesInReverseOrder ==
  Assembled =>
    \A i \in 0..(N - 1) :
      /\ caller_bytes[5 * i + 1] = OP_PUSH
      /\ RD32(caller_bytes, 5 * i + 1) = arguments[(N - 1 - i) + 1]

C7_Witness ==
  /\ pc = "L124" /\ caller_ptr # NULL
  /\ N = 3
  /\ arguments = << Neg32(DW(1)), DW(2), Neg32(DW(3)) >>

(* C8: the assembled stub is exactly 5N+9 bytes long, and that length is the
   size of the remote allocation, of the in-process buffer and of the copy
   into the target. *)
C8_StubLength ==
  /\ (pc \notin {"main", "L87", "crashed"} /\ log # <<>>)
       => caller_size = DW(5 * N + 9)
  /\ (pc = "L99" /\ caller_address # NULL)
       => Len(remote[caller_address]) = 5 * N + 9
  /\ (pc = "L101" /\ caller_ptr # NULL) => Len(caller_bytes) = 5 * N + 9
  /\ Assembled =>
       /\ Len(caller_bytes) = 5 * N + 9
       /\ \A k \in DOMAIN caller_bytes : caller_bytes[k] # Uninit
       /\ caller_bytes[5 * N + 9] = OP_RET
  /\ (pc = "L128" /\ log[Len(log)].ok) => remote[caller_address] = caller_bytes

C8_Witness ==
  /\ pc = "L128" /\ log[Len(log)].ok
  /\ N = 0
  /\ Len(remote[caller_address]) = 9

(* C9: the value returned is the remote thread's exit value, read after the
   thread has terminated; when every step succeeded and the function called
   is the test target's sum with arguments (a, b), sum received a as its
   first and b as its second parameter and the value returned is a + b. *)
C9_ResultIsExitValue ==
  /\ Succeeded("GetExitCodeThread") =>
       thread.state = "terminated" /\ result = thread.exit
  /\ Returned =>
       /\ ret = thread.exit
       /\ (AllStepsSucceeded /\ function_address = SumAddress /\ N = 2) =>
            /\ sum_calls[Len(sum_calls)] = << arguments[1], arguments[2] >>
            /\ ret = Add32(arguments[1], arguments[2])

C9_Witness ==
  /\ Returned /\ AllStepsSucceeded
  /\ function_address = SumAddress
  /\ arguments = << DW(1), DW(1) >>
  /\ ret = DW(2)

(* C10: a request whose ARGUMENTS_NUMBER differs from the number of ARGUMENTS
   tokens supplied is rejected before any foreign-process operation: main
   reads no token beyond those supplied and does not enter
   call_external_cdecl_function. *)
C10_MismatchRejected ==
  CountMismatch =>
    /\ ~oob_read
    /\ log = <<>>
    /\ pc \in {"main", "exited"}

CallsIn(l, op) == {i \in DOMAIN l : l[i].op = op /\ l[i].ok}

\* Every step of the ended invocation e succeeded.
AllStepsSucceededIn(e) ==
  \A op \in AcquireSteps \cup {"malloc"} : CallsIn(e.log, op) # {}

\* Both invocations ran every step with success and have returned.
BothCompleted ==
  /\ past # <<>>
  /\ past[1].pc = "exited" /\ AllStepsSucceededIn(past[1])
  /\ Returned /\ AllStepsSucceeded

(* C11: of two invocations against the same target and function address,
   each performs its own remote allocation and creates its own remote
   thread: the block the second obtains is freshly allocated (zero-filled,
   not the block the first left behind), each thread starts on the block of
   its own invocation, and each Call Result is the sum of that invocation's
   own arguments, whatever the other's were. *)
C11_IndependentInvocations ==
  /\ (past # <<>> /\ pc = "L99" /\ caller_address # NULL) =>
       /\ \A k \in DOMAIN remote[caller_address] : remote[caller_address][k] = 0
       /\ (past[1].caller_address # NULL /\ remote[past[1].caller_address] # <<>>)
            => caller_address # past[1].caller_address
  /\ BothCompleted =>
       /\ Cardinality(CallsIn(past[1].log, "VirtualAllocEx")) = 1
       /\ Cardinality(CallsIn(log, "VirtualAllocEx")) = 1
       /\ Cardinality(CallsIn(past[1].log, "CreateRemoteThread")) = 1
       /\ Cardinality(CallsIn(log, "CreateRemoteThread")) = 1
       /\ past[1].caller_address # caller_address
       /\ past[1].thread_start = past[1].caller_address
       /\ thread.start = caller_address
       /\ past[1].ret = Add32(past[1].arguments[1], past[1].arguments[2])
       /\ ret = Add32(arguments[1], arguments[2])
       /\ sum_calls = << <<DW(1), DW(1)>>,
                         <<past[1].arguments[1], past[1].arguments[2]>>,
                         <<arguments[1], arguments[2]>> >>

C11_Witness ==
  /\ BothCompleted
  /\ past[1].arguments = << DW(1), DW(1) >> /\ past[1].ret = DW(2)
  /\ arguments = << Neg32(DW(1)), DW(2) >> /\ ret = DW(1)

(* C12: invoked with fewer than 3 positional arguments, main prints the usage
   message and exits with a non-zero status; it parses nothing of a Call
   Request and performs no foreign-process operation. *)
C12_UsageOnly ==
  Len(argv) < 4 =>
    /\ pc \in {"main", "exited"}
    /\ log = <<>>
    /\ ~oob_read /\ arguments = <<>>
    /\ process_id = DW(0) /\ function_address = DW(0) /\ arguments_number = DW(0)
    /\ pc = "exited" =>
         /\ stdout = << [line |-> "usage", value |-> DW(0)] >>
         /\ exit_status # DW(0)

C12_Witness ==
  /\ pc = "exited"
  /\ Len(argv) = 3
  /\ stdout # <<>> /\ stdout[1].line = "usage"

(* C13: every invocation reaches a terminal state and returns, given that a
   remote thread that was created terminates; in particular an invocation in
   which thread creation failed does not wait: it issues no wait on the
   thread that does not exist. *)
C13_NoWaitWithoutThread ==
  (ValidRequest /\ Failed("CreateRemoteThread")) =>
    Calls("WaitForSingleObject") = {}

\* The stub the assembler produces for this request at this block.
StubFor(address) ==
  AssembleStub([i \in 1..(5 * N + 9) |-> Uninit], arguments, arguments_number,
               function_address, address)

(* C14: in every state in which the remote thread exists, the remote block
   starting at the thread's entry point holds exactly the 5N+9 bytes of the
   stub assembled against that address. *)
C14_ThreadRunsCopiedStub ==
  (ValidRequest /\ thread.state = "running") =>
    /\ thread.start \in AllocBases
    /\ Len(remote[thread.start]) >= 5 * N + 9
    /\ SubSeq(remote[thread.start], 1, 5 * N + 9) = StubFor(thread.start)

(* C15: at the terminal state of every invocation in which the remote
   allocation succeeded, the block it allocated is no longer allocated in
   the target. *)
C15_RemoteBlockFreed ==
  (ValidRequest /\ Returned /\ Succeeded("VirtualAllocEx")) =>
    remote[caller_address] = <<>>

(* C16: while the remote thread runs the driver sits in a single blocking
   wait: an invocation that created its thread issues at most one wait, and
   that wait returns only with the thread terminated (no zero-timeout wait
   that comes back while the thread still runs). *)
C16_SingleBlockingWait ==
  (ValidRequest /\ Succeeded("CreateRemoteThread")) =>
    /\ Cardinality(Calls("WaitForSingleObject")) <= 1
    /\ \A i \in Calls("WaitForSingleObject") : log[i].ok

\* The releases of lines 138-141, in the order the claim gives them.
ReleaseOrder ==
  <<"CloseHandle(thread)", "free", "VirtualFreeEx", "CloseHandle(process)">>

\* Every release that was issued came after the one before it in
\* ReleaseOrder, each at most once, and a returned invocation issued all four
\* whatever the earlier ones reported.
ReleasesInOrder ==
  /\ \A k \in 1..Len(ReleaseOrder) : Cardinality(Calls(ReleaseOrder[k])) <= 1
  /\ \A k \in 2..Len(ReleaseOrder) :
       \A j \in Calls(ReleaseOrder[k]) :
         \E i \in Calls(ReleaseOrder[k - 1]) : i < j
  /\ Returned => \A k \in 1..Len(ReleaseOrder) : Calls(ReleaseOrder[k]) # {}

\* Once the process handle has been closed, the block this invocation
\* allocated in the target is gone.
BlockFreedBeforeHandleClosed ==
  (Succeeded("VirtualAllocEx") /\ Calls("CloseHandle(process)") # {}) =>
    remote[caller_address] = <<>>

(* C17: teardown runs thread handle, stub buffer, remote block, process
   handle, in that order; each of the four releases is attempted even when an
   earlier one failed; and the process handle is never closed before the
   remote block is freed. *)
C17_TeardownOrder ==
  ValidRequest => (ReleasesInOrder /\ BlockFreedBeforeHandleClosed)

(* C18: within one invocation OpenProcess, VirtualAllocEx,
   WriteProcessMemory and CreateRemoteThread are each performed at most once,
   whatever they return, and an invocation in which every step succeeded
   created exactly one remote thread. *)
C18_EachStepOnce ==
  /\ \A op \in AcquireSteps : Cardinality(Calls(op)) <= 1
  /\ (Returned /\ AllStepsSucceeded) =>
       /\ Cardinality({i \in Calls("CreateRemoteThread") : log[i].ok}) = 1
       /\ thread.state = "terminated"

C18_Witness ==
  /\ ValidRequest
  /\ Returned
  /\ AllStepsSucceeded
  /\ thread.state = "terminated"

\* Offsets into caller_bytes that lines 101-121 store to, for argc arguments:
\* 5i..5i+4 for each push, 5*argc..5*argc+4 for the call, 5*argc+5..5*argc+7
\* for add esp, 5*argc+8 for ret.
StoreOffsets(argc) ==
  {Add32(Mul32(DW(i), 5), DW(k)) : i \in 0..(Nat32(argc) - 1), k \in 0..4}
    \cup {Add32(Mul32(argc, 5), DW(k)) : k \in 0..8}

(* C19: every offset at which the stub buffer is written is strictly below
   caller_size, and nothing is written when the allocation of the buffer
   failed. *)
C19_StoresInsideBuffer ==
  /\ log # <<>> =>
       \A off \in StoreOffsets(arguments_number) : Lt32(off, caller_size)
  /\ Failed("malloc") => fault # "null_write"

====
